---- MODULE Spec2Model ----
(***************************************************************************)
(* The state-machine controller of data/tools.py (Control, _State) with    *)
(* the Story and Survive screens of data/states.  One action per step of   *)
(* Control.main; the position inside the loop is pc.                       *)
(***************************************************************************)
EXTENDS Integers, Sequences, FiniteSets, TLC

\* ------------------------------------------------------------- bounds
MaxEvents == 2   \* most events one pg.event.get() returns
MaxTicks == 2    \* iterations of Control.main that are explored

None == "None"

\* ------------------------------------------------------------- the registry
\* The dictionary handed to setup_states: one object per registered name.
Registry ==
  [n \in {"STORY", "SURVIVE", "MENU", "BASE"} |->
     CASE n = "STORY" -> "story"
       [] n = "SURVIVE" -> "survive"
       [] n = "MENU" -> "menu"
       [] OTHER -> "base"]

Objects == {"story", "survive", "menu", "base"}

\* The class of each state object.
Kind(o) ==
  CASE o = "story" -> "Story"
    [] o = "survive" -> "Survive"
    [] o = "menu" -> "Menu"
    [] OTHER -> "_State"

\* A name no state is registered under.
Unregistered == "GAME"

\* The names a screen may put in its next field.
NextNames == {"STORY", "SURVIVE", "MENU", Unregistered}

\* The event types Control.event_loop and the screens tell apart (a button
\* release is handled as a button press is).
EventTypes == {"QUIT", "KEYDOWN", "KEYUP", "MOUSEBUTTONDOWN"}

RECURSIVE SeqsUpTo(_, _)
SeqsUpTo(S, n) ==
  IF n = 0 THEN {<<>>}
  ELSE LET shorter == SeqsUpTo(S, n - 1)
       IN shorter \cup {Append(q, e) : q \in shorter, e \in S}

\* What pg.event.get() may return in one pass.
EventQueues == SeqsUpTo(EventTypes, MaxEvents)

\* The dictionary a fresh state object owns as persist.
OwnPersist(o) ==
  CASE o = "story" -> "d_story"
    [] o = "survive" -> "d_survive"
    [] o = "menu" -> "d_menu"
    [] OTHER -> "d_base"

VARIABLES
  pc,          \* position in Control.main
  err,         \* the exception that ended the program, or None
  done,        \* Control.done
  keys,        \* Control.keys: is F5 held in the last snapshot
  mouse,       \* Control.mouse: is a button held in the last snapshot
  show_fps,    \* Control.show_fps
  state_dict,  \* Control.state_dict
  state_name,  \* Control.state_name
  State,       \* Control.State: the current state object
  st,          \* the fields of every state object
  events,      \* events of the current pass not yet handled
  ticks,       \* pg.time.get_ticks(), one tick per frame
  log,         \* the calls made on state objects in the current iteration
  quit_by,     \* the object whose get_event set quit, or None
  quit_at,     \* the iteration in which it did
  upd_after_quit, \* update calls on quit_by since then
  name_before, \* state_name when the last update phase began
  startups,    \* startup calls the current state received since becoming current
  via_flip,    \* the current state became current in flip_state
  frame        \* the queue drained and the current state when the last pass began

vars == <<pc, err, done, keys, mouse, show_fps, state_dict, state_name, State, st,
          events, ticks, log, quit_by, quit_at, upd_after_quit, name_before,
          startups, via_flip, frame>>

ghosts == <<quit_by, quit_at, upd_after_quit, name_before, startups, via_flip>>

\* ------------------------------------------------------------- _State
\* _State.__init__
State_init(o) ==
  [start_time |-> 0, done |-> FALSE, quit |-> FALSE, next |-> None,
   previous |-> None, persist |-> OwnPersist(o)]

\* Mutation of startup: done is reset as well.
startup_resets_done(s, persistant, now) ==
  [s EXCEPT !.persist = persistant, !.start_time = now, !.done = FALSE]

\* _State.startup(persistant)
startup(s, persistant, now) ==
  [s EXCEPT !.persist = persistant, !.start_time = now]

\* Mutation of cleanup: a copy of persist is returned.
cleanup_returns_copy(s) ==
  [state |-> [s EXCEPT !.done = FALSE], ret |-> "d_copy"]

\* Mutation of cleanup: next is cleared together with done.
cleanup_clears_next(s) ==
  [state |-> [s EXCEPT !.done = FALSE, !.next = None], ret |-> s.persist]

\* Mutation of cleanup: done is not reset.
cleanup_keeps_done(s) ==
  [state |-> s, ret |-> s.persist]

\* _State.cleanup(): the state after the call and the value returned
cleanup(s) ==
  [state |-> [s EXCEPT !.done = FALSE], ret |-> s.persist]

\* Mutation of Story.get_event: done is assigned before next.
Story_get_event_done_first(s, ev) ==
  IF ev = "KEYDOWN"
    THEN <<[s EXCEPT !.done = TRUE], [s EXCEPT !.done = TRUE, !.next = "MENU"]>>
    ELSE <<>>

\* Story.get_event(event): the state after each assignment it executes
Story_get_event_steps(s, ev) ==
  IF ev = "KEYDOWN"
    THEN <<[s EXCEPT !.next = "MENU"], [s EXCEPT !.next = "MENU", !.done = TRUE]>>
    ELSE <<>>

\* Survive.get_event(event): the state after each assignment it executes
Survive_get_event_steps(s, ev) ==
  IF ev = "KEYDOWN"
    THEN <<[s EXCEPT !.next = "MENU"], [s EXCEPT !.next = "MENU", !.done = TRUE]>>
    ELSE <<>>

\* The state a call leaves: the one after its last assignment.
AfterSteps(s, steps) == IF Len(steps) = 0 THEN s ELSE steps[Len(steps)]

\* Story.get_event(event)
Story_get_event(s, ev) == {AfterSteps(s, Story_get_event_steps(s, ev))}

\* Survive.get_event(event)
Survive_get_event(s, ev) == {AfterSteps(s, Survive_get_event_steps(s, ev))}

\* get_event of the menu screen: may ask for a transition or for quitting
Menu_get_event(s, ev) ==
  {s} \cup {[s EXCEPT !.next = n, !.done = TRUE] : n \in NextNames}
      \cup {[s EXCEPT !.quit = TRUE]}

\* Does Control.event_loop's call State.get_event(event) bind to the method?
\* _State.get_event takes (event, keys, mouse); the screens take (event).
get_event_accepts(o) == Kind(o) # "_State"

get_event(o, s, ev) ==
  CASE Kind(o) = "Story" -> Story_get_event(s, ev)
    [] Kind(o) = "Survive" -> Survive_get_event(s, ev)
    [] OTHER -> Menu_get_event(s, ev)

Call(op, o, v) == [op |-> op, obj |-> o, val |-> v]

\* ------------------------------------------------------------- Control
\* Control.__init__, with the state objects already constructed
Init ==
  /\ pc = "setup"
  /\ err = None
  /\ done = FALSE
  /\ keys = FALSE
  /\ mouse = FALSE
  /\ show_fps = TRUE
  /\ state_dict = [n \in {} |-> None]
  /\ state_name = None
  /\ State = None
  /\ st = [o \in Objects |-> State_init(o)]
  /\ events = <<>>
  /\ ticks = 0
  /\ log = <<>>
  /\ quit_by = None
  /\ quit_at = 0
  /\ upd_after_quit = 0
  /\ name_before = None
  /\ startups = 0
  /\ via_flip = FALSE
  /\ frame = [queue |-> <<>>, State |-> None, name |-> None]

\* Control.setup_states(state_dict, start_state)
setup_states ==
  /\ pc = "setup"
  /\ \E start_state \in DOMAIN Registry :
       /\ state_dict' = Registry
       /\ state_name' = start_state
       /\ State' = Registry[start_state]
  /\ pc' = "main"
  /\ startups' = 0
  /\ via_flip' = FALSE
  /\ UNCHANGED <<err, done, keys, mouse, show_fps, st, events, ticks, log,
                 quit_by, quit_at, upd_after_quit, name_before>>
  /\ UNCHANGED frame

\* Control.main: the loop condition holds, event_loop starts
main_while ==
  /\ pc = "main"
  /\ ~done
  /\ ticks < MaxTicks
  /\ \E q \in EventQueues :
       /\ events' = q
       /\ frame' = [queue |-> q, State |-> State, name |-> state_name]
  /\ log' = <<>>
  /\ pc' = "event_loop"
  /\ UNCHANGED <<err, done, keys, mouse, show_fps, state_dict, state_name, State, st,
                 ticks, ghosts>>

\* Control.main: the loop condition fails
main_exit ==
  /\ pc = "main"
  /\ done
  /\ pc' = "exit"
  /\ UNCHANGED <<err, done, keys, mouse, show_fps, state_dict, state_name, State, st,
                 events, ticks, log, ghosts>>
  /\ UNCHANGED frame

\* Control.toggle_show_fps
toggle_show_fps(k, fps) == IF k THEN ~fps ELSE fps

\* Mutation of event_loop: a key press ends the loop as a QUIT event does.
event_loop_event_key_quits ==
  /\ pc = "event_loop"
  /\ events # <<>>
  /\ LET ev == Head(events) IN
       /\ events' = Tail(events)
       /\ done' = IF ev \in {"QUIT", "KEYDOWN"} THEN TRUE ELSE done
       /\ IF ev \in {"KEYDOWN", "KEYUP"}
            THEN \E k \in BOOLEAN : /\ keys' = k
                                    /\ show_fps' = toggle_show_fps(k, show_fps)
            ELSE UNCHANGED <<keys, show_fps>>
       /\ IF ev = "MOUSEBUTTONDOWN"
            THEN \E m \in BOOLEAN : mouse' = m
            ELSE UNCHANGED mouse
       /\ IF FALSE
            THEN UNCHANGED <<st, log, quit_by, quit_at, pc, err>>
            ELSE IF get_event_accepts(State)
            THEN \E s \in get_event(State, st[State], ev) :
                   /\ st' = [st EXCEPT ![State] = s]
                   /\ log' = Append(log, Call("get_event", State, ev))
                   /\ IF s.quit /\ ~st[State].quit
                        THEN quit_by' = State /\ quit_at' = ticks
                        ELSE UNCHANGED <<quit_by, quit_at>>
                   /\ UNCHANGED <<pc, err>>
            ELSE /\ pc' = "crashed"
                 /\ err' = "TypeError"
                 /\ UNCHANGED <<st, log, quit_by, quit_at>>
  /\ UNCHANGED <<state_dict, state_name, State, ticks, upd_after_quit,
                 name_before, startups, via_flip>>
  /\ UNCHANGED frame

\* Mutation of event_loop: a QUIT event is handled by Control alone, not forwarded.
event_loop_event_quit_kept ==
  /\ pc = "event_loop"
  /\ events # <<>>
  /\ LET ev == Head(events) IN
       /\ events' = Tail(events)
       /\ done' = IF ev \in {"QUIT"} THEN TRUE ELSE done
       /\ IF ev \in {"KEYDOWN", "KEYUP"}
            THEN \E k \in BOOLEAN : /\ keys' = k
                                    /\ show_fps' = toggle_show_fps(k, show_fps)
            ELSE UNCHANGED <<keys, show_fps>>
       /\ IF ev = "MOUSEBUTTONDOWN"
            THEN \E m \in BOOLEAN : mouse' = m
            ELSE UNCHANGED mouse
       /\ IF ev = "QUIT"
            THEN UNCHANGED <<st, log, quit_by, quit_at, pc, err>>
            ELSE IF get_event_accepts(State)
            THEN \E s \in get_event(State, st[State], ev) :
                   /\ st' = [st EXCEPT ![State] = s]
                   /\ log' = Append(log, Call("get_event", State, ev))
                   /\ IF s.quit /\ ~st[State].quit
                        THEN quit_by' = State /\ quit_at' = ticks
                        ELSE UNCHANGED <<quit_by, quit_at>>
                   /\ UNCHANGED <<pc, err>>
            ELSE /\ pc' = "crashed"
                 /\ err' = "TypeError"
                 /\ UNCHANGED <<st, log, quit_by, quit_at>>
  /\ UNCHANGED <<state_dict, state_name, State, ticks, upd_after_quit,
                 name_before, startups, via_flip>>
  /\ UNCHANGED frame

\* Control.event_loop: one pass of the for loop
event_loop_event ==
  /\ pc = "event_loop"
  /\ events # <<>>
  /\ LET ev == Head(events) IN
       /\ events' = Tail(events)
       /\ done' = IF ev = "QUIT" THEN TRUE ELSE done
       /\ IF ev \in {"KEYDOWN", "KEYUP"}
            THEN \E k \in BOOLEAN : /\ keys' = k
                                    /\ show_fps' = toggle_show_fps(k, show_fps)
            ELSE UNCHANGED <<keys, show_fps>>
       /\ IF ev = "MOUSEBUTTONDOWN"
            THEN \E m \in BOOLEAN : mouse' = m
            ELSE UNCHANGED mouse
       /\ IF get_event_accepts(State)
            THEN \E s \in get_event(State, st[State], ev) :
                   /\ st' = [st EXCEPT ![State] = s]
                   /\ log' = Append(log, Call("get_event", State, ev))
                   /\ IF s.quit /\ ~st[State].quit
                        THEN quit_by' = State /\ quit_at' = ticks
                        ELSE UNCHANGED <<quit_by, quit_at>>
                   /\ UNCHANGED <<pc, err>>
            ELSE /\ pc' = "crashed"
                 /\ err' = "TypeError"
                 /\ UNCHANGED <<st, log, quit_by, quit_at>>
  /\ UNCHANGED <<state_dict, state_name, State, ticks, upd_after_quit,
                 name_before, startups, via_flip>>
  /\ UNCHANGED frame

\* Control.event_loop: the queue is drained, back in main
event_loop_return ==
  /\ pc = "event_loop"
  /\ events = <<>>
  /\ pc' = "update"
  /\ UNCHANGED <<err, done, keys, mouse, show_fps, state_dict, state_name, State, st,
                 events, ticks, log, ghosts>>
  /\ UNCHANGED frame

\* Mutation of update: done is checked before quit.
update_done_first ==
  /\ pc = "update"
  /\ IF st[State].done
       THEN pc' = "flip_state" /\ UNCHANGED done
       ELSE IF st[State].quit
              THEN done' = TRUE /\ pc' = "State_update"
              ELSE pc' = "State_update" /\ UNCHANGED done
  /\ name_before' = state_name
  /\ UNCHANGED <<err, keys, mouse, show_fps, state_dict, state_name, State, st,
                 events, ticks, log, quit_by, quit_at, upd_after_quit,
                 startups, via_flip>>
  /\ UNCHANGED frame

\* Mutation of update: a quit request does not set Control.done.
update_quit_ignored ==
  /\ pc = "update"
  /\ IF st[State].quit
       THEN pc' = "State_update" /\ UNCHANGED done
       ELSE IF st[State].done
              THEN pc' = "flip_state" /\ UNCHANGED done
              ELSE pc' = "State_update" /\ UNCHANGED done
  /\ name_before' = state_name
  /\ UNCHANGED <<err, keys, mouse, show_fps, state_dict, state_name, State, st,
                 events, ticks, log, quit_by, quit_at, upd_after_quit,
                 startups, via_flip>>
  /\ UNCHANGED frame

\* Mutation of update: a quit request returns before State.update is called.
update_quit_returns ==
  /\ pc = "update"
  /\ IF st[State].quit
       THEN done' = TRUE /\ pc' = "main" /\ ticks' = ticks + 1
       ELSE /\ IF st[State].done THEN pc' = "flip_state" ELSE pc' = "State_update"
            /\ UNCHANGED <<done, ticks>>
  /\ name_before' = state_name
  /\ UNCHANGED <<err, keys, mouse, show_fps, state_dict, state_name, State, st,
                 events, log, quit_by, quit_at, upd_after_quit,
                 startups, via_flip>>
  /\ UNCHANGED frame

\* Control.update: the quit and done checks
update ==
  /\ pc = "update"
  /\ IF st[State].quit
       THEN done' = TRUE /\ pc' = "State_update"
       ELSE IF st[State].done
              THEN pc' = "flip_state" /\ UNCHANGED done
              ELSE pc' = "State_update" /\ UNCHANGED done
  /\ name_before' = state_name
  /\ UNCHANGED <<err, keys, mouse, show_fps, state_dict, state_name, State, st,
                 events, ticks, log, quit_by, quit_at, upd_after_quit,
                 startups, via_flip>>
  /\ UNCHANGED frame

\* Mutation of flip_state: startup is handed the incoming state's own persist.
flip_state_own_persist ==
  /\ pc = "flip_state"
  /\ LET previous == state_name
         name == st[State].next
         c == cleanup(st[State])
         persist == c.ret
         st1 == [st EXCEPT ![State] = c.state]
         log1 == Append(log, Call("cleanup", State, persist))
     IN /\ state_name' = name
        /\ IF name \in DOMAIN state_dict
             THEN LET new == state_dict[name]
                      arg == st1[new].persist
                      st2 == [st1 EXCEPT ![new] = startup(st1[new], arg, ticks)]
                  IN /\ State' = new
                     /\ st' = [st2 EXCEPT ![new].previous = previous]
                     /\ log' = Append(log1, Call("startup", new, arg))
                     /\ startups' = 1
                     /\ via_flip' = TRUE
                     /\ pc' = "State_update"
                     /\ UNCHANGED err
             ELSE /\ st' = st1
                  /\ log' = log1
                  /\ pc' = "crashed"
                  /\ err' = "KeyError"
                  /\ UNCHANGED <<State, startups, via_flip>>
  /\ UNCHANGED <<done, keys, mouse, show_fps, state_dict, events, ticks,
                 quit_by, quit_at, upd_after_quit, name_before>>
  /\ UNCHANGED frame

\* Mutation of flip_state: previous is read after state_name is reassigned.
flip_state_previous_late ==
  /\ pc = "flip_state"
  /\ LET previous == state_name
         name == st[State].next
         c == cleanup(st[State])
         persist == c.ret
         st1 == [st EXCEPT ![State] = c.state]
         log1 == Append(log, Call("cleanup", State, persist))
     IN /\ state_name' = name
        /\ IF name \in DOMAIN state_dict
             THEN LET new == state_dict[name]
                      st2 == [st1 EXCEPT ![new] = startup(st1[new], persist, ticks)]
                  IN /\ State' = new
                     /\ st' = [st2 EXCEPT ![new].previous = name]
                     /\ log' = Append(log1, Call("startup", new, persist))
                     /\ startups' = 1
                     /\ via_flip' = TRUE
                     /\ pc' = "State_update"
                     /\ UNCHANGED err
             ELSE /\ st' = st1
                  /\ log' = log1
                  /\ pc' = "crashed"
                  /\ err' = "KeyError"
                  /\ UNCHANGED <<State, startups, via_flip>>
  /\ UNCHANGED <<done, keys, mouse, show_fps, state_dict, events, ticks,
                 quit_by, quit_at, upd_after_quit, name_before>>
  /\ UNCHANGED frame

\* Mutation of flip_state: the incoming state's startup is not called.
flip_state_no_startup ==
  /\ pc = "flip_state"
  /\ LET previous == state_name
         name == st[State].next
         c == cleanup(st[State])
         persist == c.ret
         st1 == [st EXCEPT ![State] = c.state]
         log1 == Append(log, Call("cleanup", State, persist))
     IN /\ state_name' = name
        /\ IF name \in DOMAIN state_dict
             THEN LET new == state_dict[name]
                  IN /\ State' = new
                     /\ st' = [st1 EXCEPT ![new].previous = previous]
                     /\ log' = log1
                     /\ startups' = 0
                     /\ via_flip' = TRUE
                     /\ pc' = "State_update"
                     /\ UNCHANGED err
             ELSE /\ st' = st1
                  /\ log' = log1
                  /\ pc' = "crashed"
                  /\ err' = "KeyError"
                  /\ UNCHANGED <<State, startups, via_flip>>
  /\ UNCHANGED <<done, keys, mouse, show_fps, state_dict, events, ticks,
                 quit_by, quit_at, upd_after_quit, name_before>>
  /\ UNCHANGED frame

\* Mutation of flip_state: Control.State is not reassigned to the looked-up state.
flip_state_keeps_State ==
  /\ pc = "flip_state"
  /\ LET previous == state_name
         name == st[State].next
         c == cleanup(st[State])
         persist == c.ret
         st1 == [st EXCEPT ![State] = c.state]
         log1 == Append(log, Call("cleanup", State, persist))
     IN /\ state_name' = name
        /\ IF name \in DOMAIN state_dict
             THEN LET st2 == [st1 EXCEPT ![State] = startup(st1[State], persist, ticks)]
                  IN /\ State' = State
                     /\ st' = [st2 EXCEPT ![State].previous = previous]
                     /\ log' = Append(log1, Call("startup", State, persist))
                     /\ startups' = 1
                     /\ via_flip' = TRUE
                     /\ pc' = "State_update"
                     /\ UNCHANGED err
             ELSE /\ st' = st1
                  /\ log' = log1
                  /\ pc' = "crashed"
                  /\ err' = "KeyError"
                  /\ UNCHANGED <<State, startups, via_flip>>
  /\ UNCHANGED <<done, keys, mouse, show_fps, state_dict, events, ticks,
                 quit_by, quit_at, upd_after_quit, name_before>>
  /\ UNCHANGED frame

\* Mutation of flip_state: the next state is looked up but state_name keeps the old name.
flip_state_keeps_name ==
  /\ pc = "flip_state"
  /\ LET previous == state_name
         name == st[State].next
         c == cleanup(st[State])
         persist == c.ret
         st1 == [st EXCEPT ![State] = c.state]
         log1 == Append(log, Call("cleanup", State, persist))
     IN /\ state_name' = state_name
        /\ IF name \in DOMAIN state_dict
             THEN LET new == state_dict[name]
                      st2 == [st1 EXCEPT ![new] = startup(st1[new], persist, ticks)]
                  IN /\ State' = new
                     /\ st' = [st2 EXCEPT ![new].previous = previous]
                     /\ log' = Append(log1, Call("startup", new, persist))
                     /\ startups' = 1
                     /\ via_flip' = TRUE
                     /\ pc' = "State_update"
                     /\ UNCHANGED err
             ELSE /\ st' = st1
                  /\ log' = log1
                  /\ pc' = "crashed"
                  /\ err' = "KeyError"
                  /\ UNCHANGED <<State, startups, via_flip>>
  /\ UNCHANGED <<done, keys, mouse, show_fps, state_dict, events, ticks,
                 quit_by, quit_at, upd_after_quit, name_before>>
  /\ UNCHANGED frame

\* Control.flip_state
flip_state ==
  /\ pc = "flip_state"
  /\ LET previous == state_name
         name == st[State].next
         c == cleanup(st[State])
         persist == c.ret
         st1 == [st EXCEPT ![State] = c.state]
         log1 == Append(log, Call("cleanup", State, persist))
     IN /\ state_name' = name
        /\ IF name \in DOMAIN state_dict
             THEN LET new == state_dict[name]
                      st2 == [st1 EXCEPT ![new] = startup(st1[new], persist, ticks)]
                  IN /\ State' = new
                     /\ st' = [st2 EXCEPT ![new].previous = previous]
                     /\ log' = Append(log1, Call("startup", new, persist))
                     /\ startups' = 1
                     /\ via_flip' = TRUE
                     /\ pc' = "State_update"
                     /\ UNCHANGED err
             ELSE /\ st' = st1
                  /\ log' = log1
                  /\ pc' = "crashed"
                  /\ err' = "KeyError"
                  /\ UNCHANGED <<State, startups, via_flip>>
  /\ UNCHANGED <<done, keys, mouse, show_fps, state_dict, events, ticks,
                 quit_by, quit_at, upd_after_quit, name_before>>
  /\ UNCHANGED frame

\* Mutation of State_update: update is skipped in an iteration that flipped.
State_update_unless_flipped ==
  /\ pc = "State_update"
  /\ IF \E i \in 1..Len(log) : log[i].op = "cleanup"
       THEN UNCHANGED <<log, upd_after_quit>>
       ELSE /\ log' = Append(log, Call("update", State, None))
            /\ upd_after_quit' = IF State = quit_by THEN upd_after_quit + 1
                                                   ELSE upd_after_quit
  /\ ticks' = ticks + 1
  /\ pc' = "main"
  /\ UNCHANGED <<err, done, keys, mouse, show_fps, state_dict, state_name, State, st,
                 events, quit_by, quit_at, name_before, startups, via_flip>>
  /\ UNCHANGED frame

\* Mutation of State_update: update goes to the state held before the flip.
State_update_on_outgoing ==
  /\ pc = "State_update"
  /\ LET old == IF \E i \in 1..Len(log) : log[i].op = "cleanup"
                  THEN log[CHOOSE i \in 1..Len(log) : log[i].op = "cleanup"].obj
                  ELSE State
     IN /\ log' = Append(log, Call("update", old, None))
        /\ upd_after_quit' = IF old = quit_by THEN upd_after_quit + 1
                                              ELSE upd_after_quit
  /\ ticks' = ticks + 1
  /\ pc' = "main"
  /\ UNCHANGED <<err, done, keys, mouse, show_fps, state_dict, state_name, State, st,
                 events, quit_by, quit_at, name_before, startups, via_flip>>
  /\ UNCHANGED frame

\* Control.update's call of State.update, and the rest of the iteration
State_update ==
  /\ pc = "State_update"
  /\ log' = Append(log, Call("update", State, None))
  /\ upd_after_quit' = IF State = quit_by THEN upd_after_quit + 1 ELSE upd_after_quit
  /\ ticks' = ticks + 1
  /\ pc' = "main"
  /\ UNCHANGED <<err, done, keys, mouse, show_fps, state_dict, state_name, State, st,
                 events, quit_by, quit_at, name_before, startups, via_flip>>
  /\ UNCHANGED frame

Next ==
  \/ setup_states
  \/ main_while
  \/ main_exit
  \/ event_loop_event
  \/ event_loop_return
  \/ update
  \/ flip_state
  \/ State_update

Spec == Init /\ [][Next]_vars

\* ------------------------------------------------------------- _State alone
\* The dictionaries that exist, and the values the fields of a state take.
Persists == {OwnPersist(o) : o \in Objects}

StateRecords ==
  [start_time : 0..MaxTicks, done : BOOLEAN, quit : BOOLEAN,
   next : {None} \cup NextNames, previous : {None} \cup DOMAIN Registry,
   persist : Persists]

\* One state object with any field values, about to receive startup.
StartupInit ==
  /\ pc = "call_startup"
  /\ err = None
  /\ done = FALSE
  /\ keys = FALSE
  /\ mouse = FALSE
  /\ show_fps = TRUE
  /\ state_dict = [n \in {} |-> None]
  /\ state_name = None
  /\ State = None
  /\ st \in {[o \in Objects |-> IF o = "menu" THEN r ELSE State_init(o)] :
               r \in StateRecords}
  /\ events = <<>>
  /\ ticks \in 0..MaxTicks
  /\ log = <<>>
  /\ quit_by = None
  /\ quit_at = 0
  /\ upd_after_quit = 0
  /\ name_before = None
  /\ startups = 0
  /\ via_flip = FALSE
  /\ frame = [queue |-> <<>>, State |-> None, name |-> None]

\* A call of _State.startup(persistant) on a state object
startup_call ==
  /\ pc = "call_startup"
  /\ \E o \in Objects : \E p \in Persists :
       /\ st' = [st EXCEPT ![o] = startup(st[o], p, ticks)]
       /\ log' = <<Call("startup", o, p)>>
  /\ pc' = "startup_returned"
  /\ UNCHANGED <<err, done, keys, mouse, show_fps, state_dict, state_name, State,
                 events, ticks, ghosts>>
  /\ UNCHANGED frame

StartupNext == startup_call

SpecStartup == StartupInit /\ [][StartupNext]_vars

TypeOK ==
  /\ pc \in {"setup", "main", "event_loop", "update", "flip_state", "State_update",
             "exit", "crashed"}
  /\ err \in {None, "TypeError", "KeyError"}
  /\ done \in BOOLEAN
  /\ ticks \in 0..MaxTicks
  /\ Len(log) <= MaxEvents + 3

\* ------------------------------------------------------------- the call log
\* Positions of the current iteration's log that hold a call of op.
Idx(op) == {i \in 1..Len(log) : log[i].op = op}

InIteration == pc \in {"event_loop", "update", "flip_state", "State_update"}
IterationOver == pc \in {"main", "exit"} /\ ticks > 0

\* ------------------------------------------------------------- claims
\* C1: an iteration of Control.main invokes update at most once, an iteration
\* that completes invokes it exactly once, as its last call and on the current
\* state; when flip_state ran in the iteration, the update comes after the
\* incoming state's startup and is invoked on that state, never between the
\* outgoing state's cleanup and the startup.
C1_ExactlyOneUpdate ==
  /\ Cardinality(Idx("update")) <= 1
  /\ IterationOver =>
       /\ Cardinality(Idx("update")) = 1
       /\ log[Len(log)] = Call("update", State, None)
  /\ \A u \in Idx("update") : \A k \in Idx("cleanup") :
       k < u => \E j \in Idx("startup") : k < j /\ j < u /\ log[j].obj = log[u].obj

C1_Witness ==
  /\ IterationOver
  /\ \E k \in Idx("cleanup") : \E u \in Idx("update") :
       /\ k < u
       /\ log[k].obj # log[u].obj
       /\ Idx("get_event") # {}

\* C2: in every transition, cleanup of the outgoing state is the call right
\* before startup of the incoming state, startup receives the very mapping
\* cleanup returned, and a cleanup with no startup after it only occurs when
\* the lookup of the next name failed.
C2_CleanupThenStartup ==
  /\ \A j \in Idx("startup") :
       /\ j > 1
       /\ log[j - 1].op = "cleanup"
       /\ log[j - 1].val = log[j].val
       /\ st[log[j].obj].persist = log[j].val
  /\ \A k \in Idx("cleanup") : k = Len(log) => pc = "crashed"

C2_Witness ==
  \E j \in Idx("startup") :
    /\ j > 1
    /\ log[j - 1].obj # log[j].obj
    /\ log[j].val # OwnPersist(log[j].obj)
    /\ log[j].val = log[j - 1].val

\* C3: after a transition the current state's previous field is the name the
\* controller held as state_name right before the transition, a transition of
\* a state to itself included.
C3_PreviousIsOldName ==
  (pc \in {"State_update", "main", "exit"} /\ Idx("startup") # {})
    => st[State].previous = name_before

C3_Witness ==
  /\ pc = "State_update"
  /\ Idx("startup") # {}
  /\ ticks > 0
  /\ state_name = name_before
  /\ st[State].previous = state_name

\* C4: when startup of the incoming state has returned and its update has not
\* yet been called, the incoming state's done is false, also for a state that
\* set done, was left, and is entered again.
C4_DoneResetOnReentry ==
  (pc = "State_update" /\ Idx("startup") # {}) => ~st[State].done

\* story was left for menu earlier and is now entered again from menu
C4_Witness ==
  /\ pc = "State_update"
  /\ \E k \in Idx("cleanup") :
       /\ log[k].obj # State
       /\ st[log[k].obj].previous \in DOMAIN state_dict
       /\ state_dict[st[log[k].obj].previous] = State
  /\ Idx("startup") # {}
  /\ ~st[State].done

\* C5: a flip_state that fails because next is not registered leaves
\* state_name, State and every field of every state as they were.
C5_NoPartialMutation ==
  [][(pc = "flip_state" /\ pc' = "crashed")
       => (state_name' = state_name /\ State' = State /\ st' = st)]_vars

\* C6 as stated: once a state's get_event has set quit, update is never
\* invoked on that state.
C6_NoUpdateAfterQuit ==
  quit_by # None => upd_after_quit = 0

\* C6 amended: once a state's get_event has set quit, update is invoked on that
\* state exactly once more, as the last call of that same iteration, and never
\* in a later iteration.
C6_OneUpdateAfterQuit ==
  quit_by # None =>
    IF InIteration
      THEN ticks = quit_at /\ upd_after_quit = 0
      ELSE /\ pc \in {"main", "exit"}
           /\ ticks = quit_at + 1
           /\ upd_after_quit = 1
           /\ log[Len(log)] = Call("update", quit_by, None)

C6_Witness ==
  /\ pc = "exit"
  /\ quit_by # None
  /\ upd_after_quit = 1

\* C7: when a state's get_event sets quit in an iteration, Control.done is
\* true from the update phase of that iteration on, the iteration is the last
\* one, and event_loop is not run again.
C7_QuitEndsLoop ==
  quit_by # None =>
    \/ pc \in {"event_loop", "update"} /\ ticks = quit_at
    \/ pc = "State_update" /\ ticks = quit_at /\ done
    \/ pc \in {"main", "exit"} /\ ticks = quit_at + 1 /\ done

\* the loop ended through quit alone: no QUIT event was in the queue
C7_Witness ==
  /\ pc = "exit"
  /\ quit_by # None
  /\ \A i \in Idx("get_event") : log[i].val # "QUIT"
  /\ done

\* C8: when the current state has quit and done both set at the update phase,
\* Control.update sets Control.done and goes on to State.update without
\* running flip_state: state_name, State, the states' fields and the calls
\* made are unchanged.
C8_QuitBeforeDone ==
  [][(pc = "update" /\ st[State].quit /\ st[State].done)
       => (done' /\ pc' = "State_update"
           /\ UNCHANGED <<state_name, State, st, log>>)]_vars

C8_Witness ==
  /\ pc = "State_update"
  /\ st[State].quit
  /\ st[State].done
  /\ done
  /\ Idx("cleanup") = {}

\* C9 as stated: all get_event calls and the update call of one iteration are
\* made on one state object.
C9_OneTargetPerFrame ==
  Cardinality({log[i].obj : i \in Idx("get_event") \cup Idx("update")}) <= 1

\* C9 amended: all get_event calls of one iteration are made on one state
\* object; the update call is made on that same object when no transition
\* occurs in the iteration, and on the incoming state, after its startup, when
\* one occurs (the get_event calls were then made on the outgoing state).
C9_TargetsFollowTransition ==
  /\ \A i \in Idx("get_event") : \A j \in Idx("get_event") : log[i].obj = log[j].obj
  /\ \A i \in Idx("get_event") : \A k \in Idx("cleanup") :
       i < k /\ log[i].obj = log[k].obj
  /\ \A u \in Idx("update") :
       /\ log[u].obj = State
       /\ IF Idx("startup") = {}
            THEN \A i \in Idx("get_event") : log[i].obj = log[u].obj
            ELSE \A j \in Idx("startup") : j < u /\ log[j].obj = log[u].obj

C9_Witness ==
  /\ IterationOver
  /\ \E i \in Idx("get_event") : \E u \in Idx("update") : log[i].obj # log[u].obj

\* C10 as stated: whenever get_event or update has been invoked on a state, the
\* state has received exactly one startup since it became current.
C10_StartupBeforeUse ==
  (log # <<>> /\ log[Len(log)].op \in {"get_event", "update"}) => startups = 1

\* C10 amended: a state that became current in flip_state has received exactly
\* one startup, on becoming current, whenever get_event or update is invoked on
\* it; the initial state selected by setup_states has received none.
C10_StartupOnFlipOnly ==
  /\ (log # <<>> /\ log[Len(log)].op \in {"get_event", "update"})
       => startups = (IF via_flip THEN 1 ELSE 0)
  /\ \A j \in Idx("startup") :
       /\ Cardinality(Idx("startup")) = 1
       /\ log[j].obj = State
       /\ \A i \in Idx("get_event") : i < j

\* an event is forwarded to a state entered in an earlier iteration
C10_Witness ==
  /\ via_flip
  /\ startups = 1
  /\ log # <<>>
  /\ log[Len(log)].op = "get_event"
  /\ log[Len(log)].obj = State

\* C11: when get_event of the current state A has left A with done set, next a
\* registered name B and quit not set, then once the update phase of that same
\* iteration is over B is current (state_name is B, State is state_dict[B]),
\* B.startup was called right after A.cleanup with the mapping it returned, and
\* B.previous is A's name: the transition is not deferred.
C11_TransitionSameIteration ==
  pc \in {"State_update", "main", "exit"} =>
    \A i \in Idx("get_event") :
      LET a == log[i].obj IN
        (/\ ~st[a].quit
         /\ st[a].next \in DOMAIN state_dict
         /\ (st[a].done \/ Idx("cleanup") # {}))
        => /\ state_name = st[a].next
           /\ State = state_dict[st[a].next]
           /\ \E k \in Idx("cleanup") :
                /\ log[k].obj = a
                /\ k + 1 \in Idx("startup")
                /\ log[k + 1] = Call("startup", State, log[k].val)
           /\ st[State].previous = name_before
           /\ state_dict[name_before] = a

C11_Witness ==
  /\ IterationOver
  /\ \E i \in Idx("get_event") :
       /\ log[i].obj # State
       /\ ~st[log[i].obj].quit
       /\ state_name = st[log[i].obj].next
       /\ st[State].previous \in DOMAIN state_dict
       /\ state_dict[st[State].previous] = log[i].obj
  /\ Idx("startup") # {}

\* C12: when event_loop forwards an event to a current state that uses
\* _State.get_event, the call completes without an error, no field of any
\* state changes, and event_loop goes on.
C12_BaseGetEventNoOp ==
  [][(pc = "event_loop" /\ events # <<>> /\ Kind(State) = "_State")
       => (pc' = "event_loop" /\ err' = None /\ st' = st)]_vars

\* C13 as stated: whatever done was before the call, done is false when
\* startup returns.
C13_StartupResetsDone ==
  pc = "startup_returned" => ~st[log[1].obj].done

\* C13 amended: startup leaves done as it was before the call; it sets persist
\* to the mapping received and start_time to the current time, and changes
\* nothing else.
C13_StartupKeepsDone ==
  [][(pc = "call_startup" /\ pc' = "startup_returned") =>
       LET o == log'[1].obj IN
         /\ st'[o].done = st[o].done
         /\ st'[o].persist = log'[1].val
         /\ st'[o].start_time = ticks
         /\ st' = [st EXCEPT ![o].persist = log'[1].val, ![o].start_time = ticks]]_vars

C13_Witness ==
  /\ pc = "startup_returned"
  /\ st[log[1].obj].done
  /\ st[log[1].obj].persist = log[1].val
  /\ st[log[1].obj].start_time = ticks

\* C14 as stated: after a transition between two distinct states, the outgoing
\* state's persist and the incoming state's persist are different mapping
\* objects.
C14_PersistNotShared ==
  \A k \in Idx("cleanup") : \A j \in Idx("startup") :
    log[k].obj # log[j].obj => st[log[k].obj].persist # st[log[j].obj].persist

\* C14 amended: after a transition between two distinct states, and for the
\* rest of that iteration, the outgoing state's persist and the incoming
\* state's persist are the same mapping object, the one cleanup returned.
C14_PersistShared ==
  \A k \in Idx("cleanup") : \A j \in Idx("startup") :
    log[k].obj # log[j].obj =>
      /\ st[log[k].obj].persist = st[log[j].obj].persist
      /\ st[log[k].obj].persist = log[k].val

C14_Witness ==
  /\ IterationOver
  /\ \E k \in Idx("cleanup") : \E j \in Idx("startup") :
       /\ log[k].obj # log[j].obj
       /\ st[log[j].obj].persist = OwnPersist(log[k].obj)
       /\ st[log[k].obj].persist = OwnPersist(log[k].obj)

\* C15 as stated: Control.done is true only once an update phase has observed
\* quit set on the current state.
C15_DoneOnlyByQuit ==
  done => (st[State].quit /\ pc \in {"State_update", "main", "exit"})

\* C15 amended: Control.done becomes true only when event_loop handles a QUIT
\* event or when the update phase observes quit set on the current state.
C15_DoneByQuitOrQuitEvent ==
  [][(~done /\ done') =>
       \/ pc = "update" /\ st[State].quit
       \/ pc = "event_loop" /\ events # <<>> /\ Head(events) = "QUIT"]_vars

\* the loop has ended through a QUIT event while no state asked to quit
C15_Witness ==
  /\ pc = "exit"
  /\ done
  /\ quit_by = None
  /\ ~st[State].quit
  /\ \E i \in 1..Len(frame.queue) : frame.queue[i] = "QUIT"

\* C16: during a pass of event_loop over a state that overrides get_event, the
\* calls made so far are exactly get_event calls on the state that was current
\* when the pass began, one per drained event, in queue order, QUIT included;
\* the events left are the rest of the queue, none is left when the pass
\* returns, and State and state_name are those of the start of the pass, also
\* after an earlier event has set done.
C16_ForwardedInOrder ==
  pc \in {"event_loop", "update"} =>
    /\ State = frame.State
    /\ state_name = frame.name
    /\ Len(log) + Len(events) = Len(frame.queue)
    /\ \A i \in 1..Len(log) : log[i] = Call("get_event", frame.State, frame.queue[i])
    /\ events = SubSeq(frame.queue, Len(log) + 1, Len(frame.queue))
    /\ (pc = "update" => events = <<>>)

\* a key press set done, the QUIT event after it still went to the same state
C16_Witness ==
  /\ pc = "update"
  /\ frame.queue = <<"KEYDOWN", "QUIT">>
  /\ Len(log) = 2
  /\ log[2] = Call("get_event", State, "QUIT")
  /\ st[State].done
  /\ State = frame.State

\* C17: at every iteration boundary after setup_states, and whenever get_event
\* or update is being or has just been invoked, state_name is a registered
\* name and State is the object state_dict[state_name].
C17_StateMatchesName ==
  /\ pc \in {"main", "event_loop", "update", "State_update", "exit"} =>
       /\ state_name \in DOMAIN state_dict
       /\ State = state_dict[state_name]
  /\ (log # <<>> /\ log[Len(log)].op \in {"get_event", "update"}) =>
       /\ state_name \in DOMAIN state_dict
       /\ log[Len(log)].obj = state_dict[state_name]

\* an iteration that changed the current state has completed
C17_Witness ==
  /\ IterationOver
  /\ via_flip
  /\ state_name # frame.name
  /\ State # frame.State
  /\ State = state_dict[state_name]
  /\ log[Len(log)] = Call("update", State, None)

\* C18: a flip_state that succeeds, from A to B, leaves state_dict and the
\* other fields of Control as they were; next and quit of every state keep
\* their values; done changes on A at most; persist, start_time and previous
\* change on B at most.
C18_FlipChangesOnly ==
  [][(pc = "flip_state" /\ pc' = "State_update") =>
       /\ state_dict' = state_dict
       /\ UNCHANGED <<done, keys, mouse, show_fps>>
       /\ \A o \in Objects :
            /\ st'[o].next = st[o].next
            /\ st'[o].quit = st[o].quit
            /\ (o # State => st'[o].done = st[o].done)
            /\ (o # State' =>
                  /\ st'[o].persist = st[o].persist
                  /\ st'[o].start_time = st[o].start_time
                  /\ st'[o].previous = st[o].previous)]_vars

\* a transition between two states has completed while a third state holds
\* values written in an earlier iteration
C18_Witness ==
  /\ pc = "State_update"
  /\ \E k \in Idx("cleanup") : \E j \in Idx("startup") :
       /\ log[k].obj # log[j].obj
       /\ st[log[k].obj].next = state_name
       /\ \E o \in Objects \ {log[k].obj, log[j].obj} : st[o] # State_init(o)

\* The assignments get_event of a Story or Survive object executes on an event.
ScreenSteps(o, ev) ==
  IF Kind(o) = "Story" THEN Story_get_event_steps(st[o], ev)
                       ELSE Survive_get_event_steps(st[o], ev)

\* C19: for the Story and Survive states, in every reachable state and after
\* every assignment of get_event on any event: done set implies next is
\* "MENU"; quit is never set; an event other than KEYDOWN leaves the state as
\* it is; done becomes true on KEYDOWN only.
C19_StoryAndSurvive ==
  \A o \in {"story", "survive"} :
    /\ st[o].done => st[o].next = "MENU"
    /\ ~st[o].quit
    /\ \A ev \in EventTypes :
         /\ \A i \in 1..Len(ScreenSteps(o, ev)) :
              /\ ScreenSteps(o, ev)[i].done => ScreenSteps(o, ev)[i].next = "MENU"
              /\ ~ScreenSteps(o, ev)[i].quit
         /\ ev # "KEYDOWN" => get_event(o, st[o], ev) = {st[o]}
         /\ \A s \in get_event(o, st[o], ev) :
              (s.done /\ ~st[o].done) => ev = "KEYDOWN"

\* story got a key press and then a key release in one pass
C19_Witness ==
  /\ pc = "update"
  /\ State = "story"
  /\ frame.queue = <<"KEYDOWN", "KEYUP">>
  /\ Len(log) = 2
  /\ st["story"].done
  /\ st["story"].next = "MENU"
  /\ st["story"].previous = "MENU"
====
